---- MODULE Spec2Model ----
(***************************************************************************)
(* twitchwatch: the poll run of streams.py (main: fetch, diff against the  *)
(* cached streams, dispatch to the delivery socket, save the cache), the  *)
(* IRC session of broadcasters.py (IrcBroadcaster) and its desktop         *)
(* notifier (DbusBroadcaster).                                             *)
(*                                                                         *)
(* Time in the poll run is counted in whole hours since an arbitrary       *)
(* epoch; a datetime.timedelta is (days, seconds) with 0 <= seconds < one  *)
(* day, so its .seconds / 3600 is the age modulo HoursPerDay.              *)
(***************************************************************************)
EXTENDS Integers, Sequences, FiniteSets, TLC

VARIABLES
    \* ---- streams.py: the world one poll run sees and leaves behind
    now,              \* datetime.now(timezone.utc) of the latest run, in hours
    fileState,        \* the cache file: "missing", "valid" or "malformed"
    cache,            \* stream_cache[game] as stored in a valid file
    \* ---- streams.py: what the latest call of main(cfg) did
    outcome,          \* "idle" (no run yet), "done", "returned", "crashed"
    snapshot,         \* what get_current_streams gave: "list" or "none"
    current_streams,  \* the list it gave (<<>> when it gave None)
    file_before,      \* fileState when the run started
    cache_before,     \* the game's entry in the file when the run started
    loaded,           \* read_stream_cache's result: "dict" or "list"
    max_age,          \* cfg['max_age']
    no_cache,         \* cfg.get('no_cache', False)
    new_streams,      \* new_streams at line 140
    retained,         \* the filtered previous_streams of lines 172-177
    dispatch,         \* "none", "sent", "connect_failed", "send_failed"
    saved,            \* "no", "written", "open_failed", "write_failed"
    \* ---- streams.py: what the runs that have ended did
    history,          \* see Remember
    \* ---- broadcasters.py: one IrcBroadcaster
    last_check_limit, \* self._last_check_limit (cmd_limit), in seconds
    games,            \* self._games
    irc_registered,   \* self._irc_registered
    last_check,       \* self._last_check: <<>> for None, else <<time>>
    closed,           \* close() has closed the socket
    hung,             \* a handler is in a loop it never leaves
    joined,           \* JOIN went out on the connection
    clock,            \* datetime.now(), in seconds
    effects,          \* what the latest handler call did, in order
    permitted,        \* the times at which a command passed the limiter
    first_command,    \* <<>>, or <<time>> of the first command checked
    nick_sent,        \* how often NICK and USER went out on the connection
    \* ---- broadcasters.py: one DbusBroadcaster, its latest broadcast()
    dbus_streams,     \* the streams argument
    dbus_answers,     \* what the notification service does for each item
    dbus_calls,       \* the calls of Notify and get_interface, in order
    dbus_outcome      \* "idle", "done", or the exception that ended the call

pollVars == <<now, fileState, cache, outcome, snapshot, current_streams,
              file_before, cache_before, loaded, max_age, no_cache,
              new_streams, retained, dispatch, saved, history>>

ircVars == <<last_check_limit, games, irc_registered, last_check, closed,
             hung, joined, clock, effects, permitted, first_command, nick_sent>>

dbusVars == <<dbus_streams, dbus_answers, dbus_calls, dbus_outcome>>

vars == <<pollVars, ircVars, dbusVars>>

----------------------------------------------------------------------------
(* Bounds of the model *)

NumIds == 2        \* stream ids a broadcaster goes through
MaxStreams == 2    \* records in one snapshot of the platform
MaxNow == 30       \* the clock stops here, in hours

Users == {1, 2}                \* user_id values
ElapsedHours == {0, 3, 26}     \* hours between two poll runs
MaxAges == {2, 24}             \* cfg['max_age'] values (24 is the default)

HoursPerDay == 24

----------------------------------------------------------------------------
(* Stream records: {"id", "user_id", "started_at"} of the platform's API.  *)
(* A stream id belongs to one broadcaster and has one start time.          *)

StartOf(k) == 3 * (k - 1)

Stream(u, k) == [user_id |-> u, id |-> <<u, k>>, started_at |-> StartOf(k)]

Catalogue == {Stream(u, k) : u \in Users, k \in 1..NumIds}

Range(s) == {s[i] : i \in 1..Len(s)}

UsersOf(s) == {s[i].user_id : i \in 1..Len(s)}

OnePerUser(s) == \A i, j \in 1..Len(s) : s[i].user_id = s[j].user_id => i = j

\* The lists get_current_streams can return at hour t: live streams that
\* have started, one per broadcaster.
AllSnapshots ==
    UNION {{s \in [1..n -> Catalogue] : OnePerUser(s)} : n \in 0..MaxStreams}

Snapshots(t) ==
    {s \in AllSnapshots : \A i \in 1..Len(s) : s[i].started_at <= t}

----------------------------------------------------------------------------
(* streams.py: stream_is_recent, lines 32-43.  stream_age.seconds is the   *)
(* seconds field of the timedelta, which leaves the whole days out.        *)

stream_is_recent(stream, age_limit, t) ==
    ((t - stream.started_at) % HoursPerDay) <= age_limit

\* The age the docstring and --max-age speak of: hours since started_at.
AgeHours(stream, t) == t - stream.started_at

----------------------------------------------------------------------------
(* streams.py: main, lines 112-138.  A dict is a sequence of values with   *)
(* distinct keys, in the order the keys were first inserted.               *)

HasKey(d, u) == \E i \in 1..Len(d) : d[i].user_id = u

DictGet(d, u) == d[CHOOSE i \in 1..Len(d) : d[i].user_id = u]

DictPut(d, r) ==
    IF HasKey(d, r.user_id)
    THEN [i \in 1..Len(d) |-> IF d[i].user_id = r.user_id THEN r ELSE d[i]]
    ELSE Append(d, r)

\* pop() that leaves the key in place
DictPopKeepsKey(d, u) == d

DictPop(d, u) == SelectSeq(d, LAMBDA r : r.user_id # u)

RECURSIVE DictFrom(_, _)
DictFrom(streams, d) ==
    IF streams = <<>> THEN d
    ELSE DictFrom(Tail(streams), DictPut(d, Head(streams)))

\* lines 114-118
previous_streams_by_user_id(previous) == DictFrom(previous, <<>>)

\* the test of lines 126-128 without the comparison of the ids
IsRestartAnyId(previous_stream, stream, age_limit, t) ==
    ~stream_is_recent(previous_stream, age_limit, t)

\* lines 126-128: the test that guards new_streams.append(stream)
IsRestart(previous_stream, stream, age_limit, t) ==
    /\ previous_stream.id # stream.id
    /\ ~stream_is_recent(previous_stream, age_limit, t)

\* lines 121-129: the loop over current_streams
RECURSIVE DiffLoop(_, _, _, _, _)
DiffLoop(current, by_user, new, age_limit, t) ==
    IF current = <<>> THEN [by_user |-> by_user, new |-> new]
    ELSE LET stream == Head(current)
             found  == HasKey(by_user, stream.user_id)
             isNew  == /\ found
                       /\ IsRestart(DictGet(by_user, stream.user_id), stream,
                                    age_limit, t)
         IN  DiffLoop(Tail(current), DictPop(by_user, stream.user_id),
                      IF isNew THEN Append(new, stream) ELSE new, age_limit, t)

\* lines 106-138: previous_streams and new_streams when line 140 is reached.
\* `entry` is stream_cache.get(game, []).
Diff(current, entry, age_limit, t) ==
    IF current = <<>>
    THEN [previous_streams |-> <<>>, new_streams |-> <<>>]
    ELSE IF entry = <<>>
    THEN [previous_streams |-> <<>>, new_streams |-> current]
    ELSE LET r == DiffLoop(current, previous_streams_by_user_id(entry), <<>>,
                           age_limit, t)
         IN  [previous_streams |-> r.by_user, new_streams |-> r.new]

\* lines 172-177: the part of previous_streams that is kept
Retained(previous_streams, age_limit, t) ==
    SelectSeq(previous_streams, LAMBDA s : stream_is_recent(s, age_limit, t))

----------------------------------------------------------------------------
(* streams.py: read_stream_cache, lines 47-72.  "dict" is the parsed (or   *)
(* empty) mapping, "list" the [] returned when open() fails.               *)

read_stream_cache(open_ok) ==
    IF fileState = "missing" THEN [type |-> "dict", entry |-> <<>>]
    ELSE IF ~open_ok THEN [type |-> "list", entry |-> <<>>]
    ELSE IF fileState = "malformed" THEN [type |-> "dict", entry |-> <<>>]
    ELSE [type |-> "dict", entry |-> cache]

----------------------------------------------------------------------------
(* streams.py: main, lines 94-178, one call.  Its inputs: the hours since  *)
(* the last run, what the platform returned, cfg, and how the file system  *)
(* and the delivery socket answered.                                       *)

\* lines 140-165: what happens to new_streams
Dispatch(new, sock) ==
    IF new = <<>> \/ sock = "unset" THEN "none"
    ELSE IF sock = "connect_fails" THEN "connect_failed"
    ELSE IF sock = "send_fails" THEN "send_failed"
    ELSE "sent"

Frame(oc, snap, cur, cs, age_limit, nc) ==
    /\ outcome' = oc
    /\ snapshot' = snap
    /\ current_streams' = cur
    /\ file_before' = fileState
    /\ cache_before' = (IF fileState = "valid" THEN cache ELSE <<>>)
    /\ loaded' = cs.type
    /\ max_age' = age_limit
    /\ no_cache' = nc

main(elapsed, snap, cur, age_limit, nc, sock, open_ok, write) ==
    LET t  == now + elapsed
        cs == read_stream_cache(open_ok)
        d  == Diff(cur, cs.entry, age_limit, t)
        sent == Dispatch(d.new_streams, sock)
        keep == Retained(d.previous_streams, age_limit, t)
    IN
    /\ outcome = "idle"
    /\ t <= MaxNow
    /\ now' = t
    /\ IF cur # <<>> /\ cs.type = "list"
       THEN \* line 109: a list has no .get
            /\ Frame("crashed", snap, cur, cs, age_limit, nc)
            /\ new_streams' = <<>> /\ retained' = <<>>
            /\ dispatch' = "none" /\ saved' = "no"
            /\ UNCHANGED <<fileState, cache>>
       ELSE IF sent = "connect_failed"
       THEN \* line 153: return
            /\ Frame("returned", snap, cur, cs, age_limit, nc)
            /\ new_streams' = d.new_streams /\ retained' = <<>>
            /\ dispatch' = sent /\ saved' = "no"
            /\ UNCHANGED <<fileState, cache>>
       ELSE IF nc
       THEN /\ Frame("done", snap, cur, cs, age_limit, nc)
            /\ new_streams' = d.new_streams /\ retained' = <<>>
            /\ dispatch' = sent /\ saved' = "no"
            /\ UNCHANGED <<fileState, cache>>
       ELSE IF snap = "none" \/ cs.type = "list"
       THEN \* lines 172-177: [] + None, or an item assignment on a list
            /\ Frame("crashed", snap, cur, cs, age_limit, nc)
            /\ new_streams' = d.new_streams /\ retained' = <<>>
            /\ dispatch' = sent /\ saved' = "no"
            /\ UNCHANGED <<fileState, cache>>
       ELSE \* line 178: save_stream_cache, lines 76-90
            /\ Frame("done", snap, cur, cs, age_limit, nc)
            /\ new_streams' = d.new_streams /\ retained' = keep
            /\ dispatch' = sent
            /\ saved' = write
            /\ CASE write = "written" ->
                      fileState' = "valid" /\ cache' = keep \o cur
                 [] write = "open_failed" -> UNCHANGED <<fileState, cache>>
                 [] OTHER -> fileState' = "malformed" /\ cache' = <<>>

\* The answers of the environment that a run with these inputs can meet:
\* open() for reading is tried only on an existing file (line 57), the
\* socket only when there is something to send (line 140), and open() for
\* writing only when line 178 is reached.
OpenAnswers == IF fileState = "missing" THEN {TRUE} ELSE BOOLEAN

SockAnswers(cur, entry, age_limit, t) ==
    IF Diff(cur, entry, age_limit, t).new_streams = <<>> THEN {"unset"}
    ELSE {"unset", "ok", "connect_fails", "send_fails"}

WriteAnswers(snap, nc, open_ok, sock) ==
    IF nc \/ snap = "none" \/ ~open_ok \/ sock = "connect_fails"
    THEN {"written"}
    ELSE {"written", "open_failed", "write_failed"}

Run ==
    /\ outcome = "idle"
    /\ UNCHANGED <<ircVars, dbusVars, history>>
    /\ \E elapsed \in {e \in ElapsedHours : now + e <= MaxNow} :
       \E age_limit \in MaxAges :
       \E open_ok \in OpenAnswers :
          \/ \E cur \in Snapshots(now + elapsed) :
             \E sock \in SockAnswers(cur, read_stream_cache(open_ok).entry,
                                     age_limit, now + elapsed) :
             \E nc \in BOOLEAN :
             \E write \in WriteAnswers("list", nc, open_ok, sock) :
                main(elapsed, "list", cur, age_limit, nc, sock, open_ok, write)
          \/ \E nc \in BOOLEAN :
                main(elapsed, "none", <<>>, age_limit, nc, "unset", open_ok,
                     "written")

\* What an observer of the runs keeps: as long as every run so far had the
\* same max_age, caching enabled and its cache written ("steady"), the
\* streams that were in new_streams and are not older than max_age hours
\* yet; nothing once a run was otherwise, or when nobody observes
\* ("broken").
NoHistory == [state |-> "fresh", max_age |-> 0, reported |-> {}]

Broken == [state |-> "broken", max_age |-> 0, reported |-> {}]

Steady(h) ==
    /\ h.state # "broken"
    /\ saved = "written"
    /\ h.state = "fresh" \/ h.max_age = max_age

Remember(h) ==
    IF Steady(h)
    THEN [state |-> "steady", max_age |-> max_age,
          reported |-> {r \in h.reported \cup Range(new_streams) :
                          AgeHours(r, now) <= max_age}]
    ELSE Broken

\* The process ends: the locals of main are gone, the file stays.
Exit ==
    /\ outcome # "idle"
    /\ history' = Remember(history)
    /\ outcome' = "idle"
    /\ snapshot' = "list"
    /\ current_streams' = <<>>
    /\ file_before' = "missing"
    /\ cache_before' = <<>>
    /\ loaded' = "dict"
    /\ max_age' = 24
    /\ no_cache' = FALSE
    /\ new_streams' = <<>>
    /\ retained' = <<>>
    /\ dispatch' = "none"
    /\ saved' = "no"
    /\ UNCHANGED <<now, fileState, cache>>
    /\ UNCHANGED <<ircVars, dbusVars>>

\* Before the first run; `state` and `entry` are what the cache file holds.
PollInit(state, entry) ==
    /\ now = 0
    /\ fileState = state
    /\ cache = entry
    /\ outcome = "idle"
    /\ snapshot = "list"
    /\ current_streams = <<>>
    /\ file_before = "missing"
    /\ cache_before = <<>>
    /\ loaded = "dict"
    /\ max_age = 24
    /\ no_cache = FALSE
    /\ new_streams = <<>>
    /\ retained = <<>>
    /\ dispatch = "none"
    /\ saved = "no"

----------------------------------------------------------------------------
(* broadcasters.py: IrcBroadcaster.  Received data is a sequence of tokens *)
(* (the words of the IRC lines, a fixed phrase being one token); CRLF is   *)
(* the token of the line terminator "\r\n".  Time is counted in seconds.   *)

MaxLines == 2       \* lines in one read
MaxChannels == 2    \* streams in one answer of the platform
MaxBroadcast == 2   \* streams in one broadcast() call
MaxClock == 6       \* the clock stops here, in seconds

\* The <<cmd_limit, games>> of a session.  The code uses the one in the
\* limiter and the other in broadcast() only, so each value of the one
\* comes with one value of the other.
IrcConfigs == {<<2, <<>>>>, <<3, <<"g1">>>>}

CRLF == "CRLF"
Room == "#room"           \* self._irc_room
Nick == "bot"             \* self._irc_nick
NickAddress == ":bot:"    \* ":{nick}:" of the pattern of line 87
Blacklist == <<"b", "c">> \* self._blacklist

SenderTokens == {":alice!x@y"}     \* the "\:(\S+)\!\S+" tokens
SenderNick(tok) == "alice"

MotdEndLine == <<":srv", "376", "End of /MOTD command">>
MotdMissingLine == <<":srv", "422", "MOTD File is missing">>
PingLine == <<"PING", ":tok">>
PingLines == {PingLine, <<"PING", ":irc.example.net">>}
NoticeLine == <<":srv", "NOTICE", "hi">>
CommandLine(text) == <<":alice!x@y", "PRIVMSG", Room, NickAddress, text>>
OtherNickLine == <<":alice!x@y", "PRIVMSG", Room, ":tob:", "quit">>

Lines == {MotdEndLine, MotdMissingLine, PingLine, NoticeLine,
          CommandLine("quit"), CommandLine("game"), OtherNickLine}

RECURSIVE ReadsOf(_)
ReadsOf(n) ==
    IF n = 0 THEN {<<>>}
    ELSE {l \o <<CRLF>> \o r : l \in Lines, r \in ReadsOf(n - 1)}

\* The lines that the connection can deliver in two parts.
CutLines == {PingLine, CommandLine("quit"), CommandLine("game")}

\* A read that ends inside a line, and the read that brings the rest.
CutReads ==
    UNION {{SubSeq(l, 1, k), SubSeq(l, k + 1, Len(l)) \o <<CRLF>>} :
             <<l, k>> \in {<<l, k>> \in CutLines \X (1..4) : k < Len(l)}}

\* What one handle_read can find in the socket (lines 53-58): whole lines,
\* or one part of a line.
Reads == UNION {ReadsOf(n) : n \in 1..MaxLines} \cup CutReads

\* The streams get_current_streams returns to a chat command:
\* stream["channel"]["name"] and stream["channel"]["url"].
ChannelNames == {"a", "b", "c"}

UrlOf(name) ==
    CASE name = "a" -> "https://www.twitch.tv/a"
      [] name = "b" -> "https://www.twitch.tv/b"
      [] name = "c" -> "https://www.twitch.tv/c"

Channel(name) == [name |-> name, url |-> UrlOf(name)]

Distinct(s) == \A i, j \in 1..Len(s) : s[i] = s[j] => i = j

ChatAnswers ==
    UNION {{[i \in 1..n |-> Channel(names[i])] :
              names \in {f \in [1..n -> ChannelNames] : Distinct(f)}} :
           n \in 0..MaxChannels}

\* The streams handed to broadcast(): game_name, user_name, title.
BroadcastStreams ==
    {[game_name |-> "g1", user_name |-> "u1", title |-> "t1"],
     [game_name |-> "g2", user_name |-> "u2", title |-> "t2"]}

BroadcastLists ==
    UNION {[1..n -> BroadcastStreams] : n \in 0..MaxBroadcast}

----------------------------------------------------------------------------
(* broadcasters.py: DbusBroadcaster.  The notification service answers a   *)
(* Notify call for an item with "ok", with "fails" (a DBusException on the *)
(* first call, a second call would pass) or with "fails_twice".            *)

MaxNotify == 3      \* streams in one broadcast() call of the notifier

DbusLists == UNION {[1..n -> BroadcastStreams] : n \in 0..MaxNotify}

DbusAnswers(n) == [1..n -> {"ok", "fails", "fails_twice"}]

\* The attributes that __init__ (line 162) and get_interface (line 175)
\* set on the object.
DbusAttributes == {"log", "_interface"}

Call(op, item, ok) == [op |-> op, item |-> item, ok |-> ok]

\* send_notification, lines 177-181: one Notify call for item i
send_notification(calls, i, ok) == Append(calls, Call("Notify", i, ok))

\* get_interface, lines 167-175
get_interface(calls, i) == Append(calls, Call("get_interface", i, TRUE))

\* lines 188-194: the loop of broadcast from item i on.  The handler of
\* line 191 starts with self.logger.warn(...).
RECURSIVE DbusLoop(_, _, _, _)
DbusLoop(i, streams, answers, calls) ==
    IF i > Len(streams) THEN [calls |-> calls, outcome |-> "done"]
    ELSE LET first == send_notification(calls, i, answers[i] = "ok")
         IN  IF answers[i] = "ok"
             THEN DbusLoop(i + 1, streams, answers, first)
             ELSE IF "logger" \notin DbusAttributes
             THEN [calls |-> first, outcome |-> "AttributeError"]
             ELSE LET again == send_notification(get_interface(first, i), i,
                                                 answers[i] = "fails")
                  IN  IF answers[i] = "fails"
                      THEN DbusLoop(i + 1, streams, answers, again)
                      ELSE [calls |-> again, outcome |-> "DBusException"]

\* DbusBroadcaster.broadcast, lines 183-194
DbusBroadcast ==
    /\ dbus_outcome = "idle"
    /\ \E streams \in DbusLists :
       \E answers \in DbusAnswers(Len(streams)) :
          LET r == DbusLoop(1, streams, answers, <<>>)
          IN  /\ dbus_streams' = streams
              /\ dbus_answers' = answers
              /\ dbus_calls' = r.calls
              /\ dbus_outcome' = r.outcome
    /\ UNCHANGED <<pollVars, ircVars>>

\* The call is over: what it did is not kept.
DbusReturn ==
    /\ dbus_outcome # "idle"
    /\ dbus_streams' = <<>>
    /\ dbus_answers' = <<>>
    /\ dbus_calls' = <<>>
    /\ dbus_outcome' = "idle"
    /\ UNCHANGED <<pollVars, ircVars>>

\* __init__, lines 161-165: no broadcast() yet
DbusInit ==
    /\ dbus_streams = <<>>
    /\ dbus_answers = <<>>
    /\ dbus_calls = <<>>
    /\ dbus_outcome = "idle"

DbusNext == DbusBroadcast \/ DbusReturn

----------------------------------------------------------------------------
(* The session as a record, so that the handlers compose.  An effect is    *)
(* one thing a handler did: "send" (bytes written on the connection),      *)
(* "refused" (a send the closed socket refused), "close", "command" (a     *)
(* line matched the pattern), "query" (get_current_streams called, with    *)
(* the list it returned), "denied" (the limiter refused a command) and     *)
(* "broadcast" (broadcast() called, with its argument).                    *)

Effect(op, cmd, arg) == [op |-> op, cmd |-> cmd, arg |-> arg]

Log(s, e) == [s EXCEPT !.effects = Append(@, e)]

\* send that writes on a closed socket as well
sendIgnoringClose(s, cmd, arg) == Log(s, Effect("send", cmd, arg))

\* send, lines 125-128.  asyncore.dispatcher.send on a closed socket gets
\* EBADF, calls handle_close and returns 0: nothing is written.
send(s, cmd, arg) ==
    IF s.closed THEN Log(s, Effect("refused", cmd, arg))
    ELSE Log(s, Effect("send", cmd, arg))

\* _irc_send, lines 130-132
irc_send(s, text) == send(s, "PRIVMSG", <<Room>> \o text)

\* _irc_join, lines 134-146.  On an open socket the recv loop ends at the
\* first BlockingIOError; on a closed one recv returns b'' every time and
\* the loop never ends.
irc_join(s, chan) ==
    LET s1 == send(s, "JOIN", <<chan>>)
    IN  IF s1.closed THEN [s1 EXCEPT !.hung = TRUE]
        ELSE [s1 EXCEPT !.joined = TRUE]

\* close that says goodbye first
closeWithQuitNotice(s) ==
    Log([send(s, "QUIT", <<>>) EXCEPT !.closed = TRUE],
        Effect("close", "", <<>>))

\* asyncore.dispatcher.close, called at line 96
close(s) == Log([s EXCEPT !.closed = TRUE], Effect("close", "", <<>>))

\* the test of line 99 without the interval
AllowedAnyTime(check, t, limit) == check = <<>> \/ t >= check[1]

\* line 99.  The datetime.now() of line 99 and that of line 100 are one
\* instant t of a clock that does not go back.
Allowed(check, t, limit) == check = <<>> \/ t >= check[1] + limit

\* lines 105-108: list.remove inside the loop over the same list
RemoveAt(list, i) == SubSeq(list, 1, i - 1) \o SubSeq(list, i + 1, Len(list))

IndexOf(list, x) == CHOOSE i \in 1..Len(list) :
                        list[i] = x /\ \A j \in 1..(i - 1) : list[j] # x

RECURSIVE RemoveBlacklisted(_, _)
RemoveBlacklisted(list, i) ==
    IF i > Len(list) THEN list
    ELSE IF \E k \in 1..Len(Blacklist) : Blacklist[k] = list[i].name
    THEN RemoveBlacklisted(RemoveAt(list, IndexOf(list, list[i])), i + 1)
    ELSE RemoveBlacklisted(list, i + 1)

\* lines 110-120: the reply to a permitted command
Reply(user, message, streams) ==
    LET kept == RemoveBlacklisted(streams, 1)
        stream_urls == [i \in 1..Len(kept) |-> kept[i].url]
    IN  IF stream_urls # <<>>
        THEN <<user, "Current">> \o message \o <<"streams include">>
             \o stream_urls
        ELSE <<user, "There are no">> \o message \o <<"streams.">>

\* a denial that tells the sender to wait
DeniedWithNotice(s, message) ==
    irc_send(Log(s, Effect("denied", "", message)), <<"wait">>)

\* lines 121-123: the limiter denied the command; a log line, nothing else
Denied(s, message) == Log(s, Effect("denied", "", message))

\* lines 92-123: a line that matched the pattern
Command(s, user, message, streams, t, limit) ==
    LET s0 == Log(s, Effect("command", user, message))
    IN  IF message = <<"quit">> THEN close(s0)
        ELSE LET s1 == [s0 EXCEPT !.first_command =
                                      IF @ = <<>> THEN <<t>> ELSE @]
             IN  IF Allowed(s1.last_check, t, limit)
                 THEN irc_send(
                        Log([s1 EXCEPT !.last_check = <<t>>,
                                       !.permitted = Append(@, t)],
                            Effect("query", "", streams)),
                        Reply(user, message, streams))
                 ELSE Denied(s1, message)

\* line.find(phrase) != -1
Contains(line, phrase) == \E i \in 1..Len(line) : line[i] = phrase

\* line.startswith("PING "), with the token that line.split()[1] takes
StartsWithPing(line) == Len(line) >= 2 /\ line[1] = "PING"

\* lines 87-89: regex.search(line)
MatchAt(line, i) ==
    /\ i + 4 <= Len(line)
    /\ line[i] \in SenderTokens
    /\ line[i + 1] = "PRIVMSG"
    /\ line[i + 2] = Room
    /\ line[i + 3] = NickAddress

Matches(line) == \E i \in 1..Len(line) : MatchAt(line, i)

MatchIndex(line) == CHOOSE i \in 1..Len(line) :
                        MatchAt(line, i) /\ \A j \in 1..(i - 1) : ~MatchAt(line, j)

\* a keepalive reply that echoes the first word of the line
PongFirstWord(s, line) == send(s, "PONG", <<line[1]>>)

\* line 78: the reply carries line.split()[1]
Pong(s, line) == send(s, "PONG", <<line[2]>>)

\* a registration that does not remember it was done
RegisterWithoutFlag(s) ==
    LET s1 == send(send(s, "NICK", <<Nick>>), "USER", <<Nick>>)
    IN  [s1 EXCEPT !.nick_sent = IF s.closed THEN @ ELSE @ + 1]

\* lines 80-84: NICK, USER, and the flag
Register(s) ==
    LET s1 == send(send(s, "NICK", <<Nick>>), "USER", <<Nick>>)
    IN  [s1 EXCEPT !.irc_registered = TRUE,
                   !.nick_sent = IF s.closed THEN @ ELSE @ + 1]

\* lines 68-123: one line of the read
HandleLine(s, line, streams, t, limit) ==
    IF Contains(line, "End of /MOTD command") THEN irc_join(s, Room)
    ELSE IF Contains(line, "MOTD File is missing") THEN irc_join(s, Room)
    ELSE IF StartsWithPing(line) THEN Pong(s, line)
    ELSE IF ~s.irc_registered THEN Register(s)
    ELSE IF Matches(line)
    THEN LET i == MatchIndex(line)
         IN  Command(s, SenderNick(line[i]),
                     SubSeq(line, i + 4, Len(line)), streams, t, limit)
    ELSE s

\* str_data.split('\r\n'), line 67
RECURSIVE Split(_, _)
Split(data, line) ==
    IF data = <<>> THEN <<line>>
    ELSE IF Head(data) = CRLF THEN <<line>> \o Split(Tail(data), <<>>)
    ELSE Split(Tail(data), Append(line, Head(data)))

\* line 67: the loop over the lines
RECURSIVE HandleLines(_, _, _, _, _)
HandleLines(s, lines, streams, t, limit) ==
    IF lines = <<>> \/ s.hung THEN s
    ELSE HandleLines(HandleLine(s, Head(lines), streams, t, limit),
                     Tail(lines), streams, t, limit)

\* a test that lets every game through
WantedAlways(stream, allow) == TRUE

\* line 154
Wanted(stream, allow) ==
    \/ allow = <<>>
    \/ \E k \in 1..Len(allow) : allow[k] = stream.game_name

\* lines 153-157: the loop of broadcast
RECURSIVE BroadcastLoop(_, _, _)
BroadcastLoop(s, streams, allow) ==
    IF streams = <<>> THEN s
    ELSE LET stream == Head(streams)
         IN  BroadcastLoop(
                 IF Wanted(stream, allow)
                 THEN irc_send(s, <<stream.game_name, stream.title,
                                    "https://www.twitch.tv/", stream.user_name>>)
                 ELSE s,
                 Tail(streams), allow)

Session ==
    [irc_registered |-> irc_registered, last_check |-> last_check,
     closed |-> closed, hung |-> hung, joined |-> joined,
     effects |-> <<>>, permitted |-> permitted,
     first_command |-> first_command, nick_sent |-> nick_sent]

Becomes(s) ==
    /\ irc_registered' = s.irc_registered
    /\ last_check' = s.last_check
    /\ closed' = s.closed
    /\ hung' = s.hung
    /\ joined' = s.joined
    /\ effects' = s.effects
    /\ permitted' = s.permitted
    /\ first_command' = s.first_command
    /\ nick_sent' = s.nick_sent
    /\ UNCHANGED <<last_check_limit, games, clock>>

\* handle_read, lines 50-123, called by the asyncore loop while the
\* channel is in its map (close() takes it out)
handle_read(data, streams) ==
    /\ effects = <<>>
    /\ ~closed /\ ~hung
    /\ data # <<>>
    /\ Becomes(HandleLines(Session, Split(data, <<>>), streams, clock,
                           last_check_limit))
    /\ UNCHANGED <<pollVars, dbusVars>>

\* broadcast, lines 148-157, called by the owner of the broadcaster
broadcast(streams) ==
    /\ effects = <<>>
    /\ ~hung
    /\ Becomes(BroadcastLoop(Log(Session, Effect("broadcast", "", streams)),
                              streams, games))
    /\ UNCHANGED <<pollVars, dbusVars>>

\* The handler returns to its caller: what it did is not kept.
Return ==
    /\ effects # <<>>
    /\ ~hung
    /\ effects' = <<>>
    /\ UNCHANGED <<last_check_limit, games, irc_registered, last_check,
                   closed, hung, joined, clock, permitted, first_command,
                   nick_sent>>
    /\ UNCHANGED <<pollVars, dbusVars>>

\* A second passes between two handler calls.
Tick ==
    /\ effects = <<>>
    /\ clock < MaxClock
    /\ clock' = clock + 1
    /\ UNCHANGED <<last_check_limit, games, irc_registered, last_check,
                   closed, hung, joined, effects, permitted, first_command,
                   nick_sent>>
    /\ UNCHANGED <<pollVars, dbusVars>>

\* __init__, lines 10-40
SessionInit(cmd_limit, allow) ==
    /\ last_check_limit = cmd_limit
    /\ games = allow
    /\ irc_registered = FALSE
    /\ last_check = <<>>
    /\ closed = FALSE
    /\ hung = FALSE
    /\ joined = FALSE
    /\ clock = 0
    /\ effects = <<>>
    /\ permitted = <<>>
    /\ first_command = <<>>
    /\ nick_sent = 0

IrcInit ==
    /\ PollInit("missing", <<>>)
    /\ history = Broken
    /\ DbusInit
    /\ \E cfg \in IrcConfigs : SessionInit(cfg[1], cfg[2])

\* The answers of the platform that matter to a read: any, when the read
\* leads to a call of get_current_streams.
AnswersFor(data) ==
    LET s == HandleLines(Session, Split(data, <<>>), <<>>, clock,
                         last_check_limit)
    IN  IF \E i \in 1..Len(s.effects) : s.effects[i].op = "query"
        THEN ChatAnswers ELSE {<<>>}

Read ==
    /\ effects = <<>>
    /\ ~closed /\ ~hung
    /\ \E data \in Reads :
       \E streams \in AnswersFor(data) : handle_read(data, streams)

Announce ==
    /\ effects = <<>>
    /\ \E streams \in BroadcastLists : broadcast(streams)

IrcNext == Read \/ Announce \/ Return \/ Tick

IrcSpec == IrcInit /\ [][IrcNext]_vars

----------------------------------------------------------------------------
(* Specifications *)

\* The poll runs of one game, starting without a cache file.
Init ==
    /\ PollInit("missing", <<>>)
    /\ history = Broken
    /\ SessionInit(30, <<>>)
    /\ DbusInit

Next == Run \/ Exit

Spec == Init /\ [][Next]_vars

\* The poll runs over a cache file found on disk with any entry for the
\* game, as left by another version of the program or written by hand.
EntryLengths == 0..2

AnyEntry == UNION {[1..n -> Catalogue] : n \in EntryLengths}

InitAnyCache ==
    \E entry \in AnyEntry :
        /\ PollInit("valid", entry)
        /\ history = Broken
        /\ SessionInit(30, <<>>)
        /\ DbusInit

AnyCacheSpec == InitAnyCache /\ [][Next]_vars

\* The poll runs of one game, starting without a cache file, with an
\* observer of what the runs report.
InitObserved ==
    /\ PollInit("missing", <<>>)
    /\ history = NoHistory
    /\ SessionInit(30, <<>>)
    /\ DbusInit

ObservedSpec == InitObserved /\ [][Next]_vars

\* The broadcast() calls of one desktop notifier.
DbusSpec == Init /\ [][DbusNext]_vars

----------------------------------------------------------------------------
(* The poll run: properties *)

\* main got past line 109: the diff of lines 106-138 was computed against
\* the entry read from the file
Diffed == outcome # "idle" /\ loaded = "dict" /\ snapshot = "list"

\* the game's entry in the file now
Entry == IF fileState = "valid" THEN cache ELSE <<>>

\* C1: a broadcaster whose stream id differs between the cached record and
\* the current record is in new_streams if and only if the cached record
\* is older than max_age hours (whole days counted).
C1_RestartIsNewIffPreviousOld ==
    Diffed =>
        \A i \in 1..Len(current_streams), j \in 1..Len(cache_before) :
            (/\ cache_before[j].user_id = current_streams[i].user_id
             /\ cache_before[j].id # current_streams[i].id)
            => ((current_streams[i] \in Range(new_streams))
                  <=> (AgeHours(cache_before[j], now) > max_age))

\* C2: a cached record of a broadcaster that is absent from the current
\* snapshot is in the retained part of the saved entry if and only if its
\* age is at most max_age hours, for every current snapshot.
C2_AbsentIsRetainedIffRecent ==
    (Diffed /\ saved = "written") =>
        \A j \in 1..Len(cache_before) :
            cache_before[j].user_id \notin UsersOf(current_streams)
            => ((cache_before[j] \in Range(retained))
                  <=> (AgeHours(cache_before[j], now) <= max_age))

\* C3: a current record whose id is the id of a record of the previous
\* snapshot is never in new_streams.
C3_SameIdNeverNew ==
    \A i \in 1..Len(new_streams), j \in 1..Len(cache_before) :
        new_streams[i].id # cache_before[j].id

\* C3 witness: a run whose snapshot repeats a cached id while another
\* broadcaster of the same snapshot is reported new.
C3_Witness ==
    /\ Diffed
    /\ new_streams # <<>>
    /\ \E i \in 1..Len(current_streams), j \in 1..Len(cache_before) :
          current_streams[i].id = cache_before[j].id

\* C4: a current record whose broadcaster has no cached record is in
\* new_streams, and with an empty previous snapshot every current record
\* is new and nothing is retained.
C4_FirstAppearanceIsNew ==
    Diffed =>
        /\ \A i \in 1..Len(current_streams) :
              current_streams[i].user_id \notin UsersOf(cache_before)
              => current_streams[i] \in Range(new_streams)
        /\ cache_before = <<>> => retained = <<>>

\* C5: a run whose snapshot holds nothing dispatches nothing and leaves the
\* game's entry in the file as it was (even when no file operation fails).
C5_NoSnapshotLeavesCacheUntouched ==
    (/\ outcome # "idle"
     /\ current_streams = <<>>
     /\ saved \in {"no", "written"})
    => (dispatch = "none" /\ Entry = cache_before)

\* C6: a run that obtained a snapshot with caching enabled ends with the
\* entry replaced by retained ++ current, whatever the outcome of dispatch
\* (the file operations succeeding).
C6_SnapshotRunSavesRetainedPlusCurrent ==
    (/\ Diffed
     /\ ~no_cache
     /\ saved \notin {"open_failed", "write_failed"})
    => (/\ saved = "written"
        /\ fileState = "valid"
        /\ cache = retained \o current_streams)

\* C7: after every save the entry holds at most one record per user_id,
\* whatever the entry held before (each snapshot holding one per user).
C7_SavedEntryOnePerUser ==
    saved = "written" => OnePerUser(cache)

\* C7 witness: a save over an entry that held two records of one user, with
\* both a retained and a current record.
C7_Witness ==
    /\ saved = "written"
    /\ ~OnePerUser(cache_before)
    /\ retained # <<>>
    /\ current_streams # <<>>

\* C16: a run that found the cache file missing, unreadable or malformed
\* goes on with an empty previous list: everything in the snapshot is new
\* and dispatched, and the snapshot is saved (the socket connecting and the
\* write succeeding).
C16_BadCacheFileDegradesToEmpty ==
    (/\ outcome # "idle"
     /\ snapshot = "list"
     /\ file_before \in {"missing", "malformed"} \/ loaded = "list"
     /\ ~no_cache
     /\ dispatch # "connect_failed"
     /\ saved \notin {"open_failed", "write_failed"})
    => (/\ outcome = "done"
        /\ new_streams = current_streams
        /\ saved = "written"
        /\ Entry = current_streams)

\* C20: in a sequence of runs with one max_age, caching enabled and every
\* cache written, a stream id that an earlier run reported new is not in
\* new_streams again while its age is at most max_age hours.
C20_NotReportedNewTwice ==
    (outcome # "idle" /\ Steady(history)) =>
        \A i \in 1..Len(new_streams) :
            (\E r \in history.reported : r.id = new_streams[i].id)
            => AgeHours(new_streams[i], now) > max_age

----------------------------------------------------------------------------
(* The IRC session: properties *)

Did(op) == {i \in 1..Len(effects) : effects[i].op = op}

\* C8: two permitted commands are never less than the limiter's interval
\* apart, and the first command after construction is always permitted.
C8_PermittedCommandsSpaced ==
    /\ \A i, j \in 1..Len(permitted) :
          i < j => permitted[j] - permitted[i] >= last_check_limit
    /\ first_command # <<>> =>
          (permitted # <<>> /\ permitted[1] = first_command[1])

\* C8 witness: three commands were permitted and the latest read held a
\* command that the limiter denied.
C8_Witness ==
    /\ Len(permitted) >= 3
    /\ Did("denied") # {}

C10_BroadcastWitness ==
    /\ closed
    /\ Did("close") = {}
    /\ \E j \in Did("refused") : effects[j].cmd = "PRIVMSG"

\* C11: on an open socket a line that starts with "PING " is answered with
\* one PONG that carries the token of the line, whatever the session has
\* done so far, and nothing else of the session changes: not the
\* registration, not the join, not the limiter.
C11_PingAnsweredWithoutStateChange ==
    ~closed =>
        \A line \in PingLines :
            HandleLine(Session, line, <<>>, clock, last_check_limit)
              = [Session EXCEPT
                   !.effects = <<Effect("send", "PONG", <<line[2]>>)>>]

\* C11 witness: a read that held nothing but a PING line, in a session that
\* is registered, has joined and has a limiter that would deny a command.
C11_Witness ==
    /\ effects = <<Effect("send", "PONG", <<PingLine[2]>>)>>
    /\ irc_registered /\ joined /\ ~closed
    /\ ~Allowed(last_check, clock, last_check_limit)

\* a line that takes none of the branches of lines 68-78
Plain(line) ==
    /\ ~Contains(line, "End of /MOTD command")
    /\ ~Contains(line, "MOTD File is missing")
    /\ ~StartsWithPing(line)

SentNick(log) ==
    {i \in 1..Len(log) : log[i].op = "send" /\ log[i].cmd = "NICK"}

\* C12 (as claimed): NICK and USER are sent by the first received line, so
\* every PONG and every JOIN is written after them.
C12_FirstLineRegisters ==
    \A i \in Did("send") :
        effects[i].cmd \in {"PONG", "JOIN"} =>
            /\ nick_sent = 1
            /\ \A j \in SentNick(effects) : j < i

\* C12 (amended): NICK then USER are sent at most once, by the first line
\* that is neither an MOTD line nor a PING line (the empty remainder after
\* the last CRLF counts as a line); once sent, no line sends them again.
C12_RegistersOnceOnFirstPlainLine ==
    /\ nick_sent <= 1
    /\ irc_registered <=> nick_sent = 1
    /\ \A i \in SentNick(effects) :
          /\ i < Len(effects)
          /\ effects[i + 1] = Effect("send", "USER", <<Nick>>)
          /\ \A j \in SentNick(effects) : j = i
    /\ ~closed =>
          \A line \in Lines \cup {<<>>} :
              LET s == HandleLine(Session, line, <<>>, clock, last_check_limit)
              IN  SentNick(s.effects) # {}
                    <=> (~irc_registered /\ Plain(line))

\* C12 witness: a read of a registered session that held a command line and
\* did not send NICK again.
C12_Witness ==
    /\ nick_sent = 1
    /\ Did("command") # {}
    /\ SentNick(effects) = {}

\* The session after the two reads that bring `line` cut after its k-th
\* word, and after the one read that brings it whole.
AfterCut(line, k) ==
    HandleLines(
        HandleLines(Session, Split(SubSeq(line, 1, k), <<>>), <<>>, clock,
                    last_check_limit),
        Split(SubSeq(line, k + 1, Len(line)) \o <<CRLF>>, <<>>), <<>>, clock,
        last_check_limit)

AfterWhole(line) ==
    HandleLines(Session, Split(line \o <<CRLF>>, <<>>), <<>>, clock,
                last_check_limit)

\* C13: in a session that has registered and joined, a line that arrives
\* cut across two reads leaves the session as the same line arriving in one
\* read does, with the same things written.
C13_CutLineHandledAsWhole ==
    (irc_registered /\ joined /\ ~closed /\ ~hung /\ effects = <<>>) =>
        \A line \in CutLines :
            \A k \in 1..(Len(line) - 1) : AfterCut(line, k) = AfterWhole(line)

Blacklisted(name) == \E k \in 1..Len(Blacklist) : Blacklist[k] = name

\* C14: a permitted command gets one reply line, which holds the URL of
\* every returned broadcaster that is not blacklisted and of none that is,
\* and says there are none when no such broadcaster was returned.
C14_ReplyListsNonBlacklisted ==
    \A i \in Did("query") :
        /\ i < Len(effects)
        /\ effects[i + 1].cmd = "PRIVMSG"
        /\ i + 2 <= Len(effects) => effects[i + 2].cmd # "PRIVMSG"
        /\ LET answer == effects[i].arg
               reply == effects[i + 1].arg
           IN  /\ \A k \in 1..Len(answer) :
                     Contains(reply, answer[k].url)
                       <=> ~Blacklisted(answer[k].name)
               /\ Contains(reply, "There are no")
                     <=> \A k \in 1..Len(answer) : Blacklisted(answer[k].name)

\* C18: a command that the limiter denies does nothing: no call of the
\* platform, no reply, no change of the session (the limiter's time
\* included), whatever the platform would have answered; _last_check is
\* the time of the latest permitted command.  A quit command closes the
\* socket whether the limiter would deny or not, and leaves the limiter
\* as it was.
C18_DeniedCommandHasNoEffect ==
    /\ \A i \in Did("denied") :
          /\ i > 1 /\ effects[i - 1].op = "command"
          /\ i < Len(effects) =>
                (effects[i + 1].op # "query" /\ effects[i + 1].cmd # "PRIVMSG")
    /\ last_check = IF permitted = <<>> THEN <<>>
                    ELSE <<permitted[Len(permitted)]>>
    /\ (irc_registered /\ ~closed) =>
          /\ ~Allowed(last_check, clock, last_check_limit) =>
                \A answer \in ChatAnswers :
                    HandleLine(Session, CommandLine("game"), answer, clock,
                               last_check_limit)
                      = [Session EXCEPT !.effects =
                           <<Effect("command", "alice", <<"game">>),
                             Effect("denied", "", <<"game">>)>>]
          /\ HandleLine(Session, CommandLine("quit"), <<>>, clock,
                        last_check_limit)
                = [Session EXCEPT !.closed = TRUE,
                                  !.effects =
                                     <<Effect("command", "alice", <<"quit">>),
                                       Effect("close", "", <<>>)>>]

\* C18 witness: one read in which the limiter denied a command and a quit
\* command that followed, at the same time, closed the socket.
C18_Witness ==
    \E i \in Did("denied"), j \in Did("close") : i < j

\* C19: a handler call that acted on a room command (asked the platform
\* and replied, or closed on quit) belongs to a session that has sent JOIN.
C19_CommandsOnlyWhenJoined ==
    (Did("query") \cup Did("close")) # {} => joined

\* The room message of lines 155-157 for one stream.
RoomMessage(stream) ==
    Effect("send", "PRIVMSG",
           <<Room, stream.game_name, stream.title, "https://www.twitch.tv/",
             stream.user_name>>)

InAllowList(stream) == games = <<>> \/ stream.game_name \in Range(games)

\* C17: on an open socket broadcast(streams) writes one room message for
\* each stream whose game is in the allow-list (for each stream when the
\* list is empty), none for the others, in the order of streams.
C17_BroadcastSendsAllowedInOrder ==
    \A i \in Did("broadcast") :
        ~closed =>
            LET expected == SelectSeq(effects[i].arg, InAllowList)
                written == SubSeq(effects, i + 1, Len(effects))
            IN  written = [k \in 1..Len(expected) |-> RoomMessage(expected[k])]

\* C17 witness: a broadcast with an allow-list, of a stream that is not in
\* it followed by one that is: one message was written.
C17_Witness ==
    /\ games # <<>> /\ ~closed
    /\ \E i \in Did("broadcast") :
          /\ Len(effects[i].arg) = 2
          /\ ~InAllowList(effects[i].arg[1])
          /\ InAllowList(effects[i].arg[2])
          /\ Len(effects) = i + 1

----------------------------------------------------------------------------
(* The desktop notifier: properties *)

CallsFor(i, op) ==
    {k \in 1..Len(dbus_calls) :
        dbus_calls[k].item = i /\ dbus_calls[k].op = op}

\* C15: in broadcast() every item gets its Notify call; an item whose call
\* fails gets one get_interface and one more Notify call, no item gets
\* more, and a failing second call does not keep the later items from
\* being tried.
C15_ReconnectOnceRetryOnce ==
    dbus_outcome # "idle" =>
        \A i \in 1..Len(dbus_streams) :
            IF dbus_answers[i] = "ok"
            THEN /\ Cardinality(CallsFor(i, "Notify")) = 1
                 /\ CallsFor(i, "get_interface") = {}
            ELSE /\ Cardinality(CallsFor(i, "Notify")) = 2
                 /\ Cardinality(CallsFor(i, "get_interface")) = 1

====
